---- MODULE Spec2Model ----
(***************************************************************************)
(* Model of the HyperLogLog cardinality estimator of src/hll.c.            *)
(*                                                                         *)
(* A uint32_t is kept as its two 16-bit halves, so that shifts, masks and  *)
(* the modular additions of ones() are computed with their 32-bit width.   *)
(***************************************************************************)
EXTENDS Integers, FiniteSets, Sequences, TLC

(***************************************************************************)
(* Bounds of the model and constants of the program.                       *)
(***************************************************************************)
\* largest k of the estimators of the state machine (the program allows 16)
MaxK == 3
\* number of calls made on the estimators in one behaviour
MaxSteps == 3
\* HyperLogLog_init: k < 2 is rejected
KMin == 2
\* HyperLogLog_init: k > 16 is rejected
KMax == 16
\* HyperLogLog_new: default seed
DefaultSeed == 314
\* HyperLogLog_set_register: rank > 32 is rejected
MaxRank == 32

(***************************************************************************)
(* 32-bit words: [hi, lo], the two 16-bit halves.                          *)
(***************************************************************************)
Half == 65536

Mk(hi, lo) == [hi |-> hi, lo |-> lo]

Zero32 == Mk(0, 0)

Max(a, b) == IF a > b THEN a ELSE b

Min(a, b) == IF a < b THEN a ELSE b

\* bits a..b of a half set
HalfRun(a, b) == IF a > b THEN 0 ELSE 2 ^ (b + 1) - 2 ^ a

\* the word whose bits a..b are set (bit 0 is the least significant)
Run(a, b) == Mk(HalfRun(Max(a, 16) - 16, b - 16), HalfRun(a, Min(b, 15)))

RECURSIVE And16(_, _)
And16(a, b) ==
    IF a = 0 \/ b = 0 THEN 0
    ELSE (a % 2) * (b % 2) + 2 * And16(a \div 2, b \div 2)

RECURSIVE Or16(_, _)
Or16(a, b) ==
    IF a = 0 THEN b
    ELSE IF b = 0 THEN a
    ELSE Max(a % 2, b % 2) + 2 * Or16(a \div 2, b \div 2)

\* x >> n, 0 <= n <= 31
Shr(x, n) ==
    IF n >= 16
    THEN Mk(0, x.hi \div 2 ^ (n - 16))
    ELSE Mk(x.hi \div 2 ^ n, (x.lo \div 2 ^ n) + (x.hi % 2 ^ n) * 2 ^ (16 - n))

\* x << n, 0 <= n <= 31, the bits shifted out are lost
Shl(x, n) ==
    IF n >= 16
    THEN Mk((x.lo * 2 ^ (n - 16)) % Half, 0)
    ELSE Mk((x.hi * 2 ^ n + x.lo \div 2 ^ (16 - n)) % Half, (x.lo * 2 ^ n) % Half)

OrW(x, y) == Mk(Or16(x.hi, y.hi), Or16(x.lo, y.lo))

AndW(x, y) == Mk(And16(x.hi, y.hi), And16(x.lo, y.lo))

NotW(x) == Mk(Half - 1 - x.hi, Half - 1 - x.lo)

\* x + y modulo 2^32
Add32(x, y) ==
    Mk((x.hi + y.hi + (x.lo + y.lo) \div Half) % Half, (x.lo + y.lo) % Half)

\* x - y modulo 2^32
Sub32(x, y) ==
    Mk((x.hi - y.hi - (IF x.lo < y.lo THEN 1 ELSE 0) + Half) % Half,
       (x.lo - y.lo + Half) % Half)

\* value of a word below 2^31
ToNat(x) == x.hi * Half + x.lo

\* bit i of x
BitAt(x, i) == IF i >= 16 THEN (x.hi \div 2 ^ (i - 16)) % 2 ELSE (x.lo \div 2 ^ i) % 2

Mask55555555 == Mk(21845, 21845)

Mask33333333 == Mk(13107, 13107)

Mask0F0F0F0F == Mk(3855, 3855)

Mask0000003F == Mk(0, 63)

(***************************************************************************)
(* ones(x): the number of bits set in x.                                   *)
(***************************************************************************)
ones(x) ==
    LET x1 == Sub32(x, AndW(Shr(x, 1), Mask55555555))
        x2 == Add32(AndW(Shr(x1, 2), Mask33333333), AndW(x1, Mask33333333))
        x3 == AndW(Add32(Shr(x2, 4), x2), Mask0F0F0F0F)
        x4 == Add32(x3, Shr(x3, 8))
        x5 == Add32(x4, Shr(x4, 16))
    IN  ToNat(AndW(x5, Mask0000003F))

(***************************************************************************)
(* leadingZeroCount(x): smear the highest set bit downwards, then count.   *)
(***************************************************************************)
\* the smear without its last step
leadingZeroCount_noSmear16(x) ==
    LET x1 == OrW(x, Shr(x, 1))
        x2 == OrW(x1, Shr(x1, 2))
        x3 == OrW(x2, Shr(x2, 4))
        x4 == OrW(x3, Shr(x3, 8))
    IN  32 - ones(x4)

leadingZeroCount(x) ==
    LET x1 == OrW(x, Shr(x, 1))
        x2 == OrW(x1, Shr(x1, 2))
        x3 == OrW(x2, Shr(x2, 4))
        x4 == OrW(x3, Shr(x3, 8))
        x5 == OrW(x4, Shr(x4, 16))
    IN  32 - ones(x5)

(***************************************************************************)
(* The hash mapping of HyperLogLog_add.                                    *)
(***************************************************************************)
\* index = (*hash >> (32 - self->k)) + 1
AddIndex(h, k) == ToNat(Shr(h, 32 - k)) + 1

\* rank = leadingZeroCount((*hash << self->k) >> self->k) - self->k + 1
AddRank(h, k) == leadingZeroCount(Shr(Shl(h, k), k)) - k + 1

\* size = 1 << k
SizeOf(k) == 2 ^ k

(***************************************************************************)
(* The hash of the inserted bytes.  MurmurHash3_x86_32 is a library        *)
(* primitive: a fixed function of the bytes and the seed.  The bytes are   *)
(* named 1..4 and their hashes under the default seed are tabulated.       *)
(***************************************************************************)
HashTable ==
    << Mk(0, 0),          \* 0x00000000
       Mk(65535, 65535),  \* 0xFFFFFFFF
       Mk(16384, 256),    \* 0x40000100
       Mk(20480, 0) >>    \* 0x50000000

Data == DOMAIN HashTable

MurmurHash3_x86_32(data, seed) ==
    IF seed = DefaultSeed THEN HashTable[data] ELSE NotW(HashTable[data])

(***************************************************************************)
(* State.                                                                  *)
(*   est     the two estimator objects: k, seed, size and the register     *)
(*           buffer (positions 0..size-1)                                  *)
(*   layout  where malloc put the two buffers: "apart", or the buffer of   *)
(*           estimator 2 immediately after the buffer of estimator 1       *)
(*   op      the last call made and what it returned                       *)
(*   steps   number of calls made                                          *)
(*   alive   FALSE once the process was aborted                            *)
(*   probe   the hash-mapping computation of SpecHash                      *)
(***************************************************************************)
VARIABLES est, layout, op, steps, alive, probe

vars == <<est, layout, op, steps, alive, probe>>

Ests == {1, 2}

\* (the estimators are interchangeable, so "2 then 1" adds nothing)
Layouts == {"apart", "1then2"}

\* what a read one byte past a buffer can find in allocator slack
SlackBytes == {0, 255}

\* the estimator whose buffer starts right after the buffer of e (0: none)
Follows(e) ==
    IF layout = "1then2" /\ e = 1 THEN 2 ELSE 0

\* self->registers[i] for i <= size, read
ReadCell(e, i, slack) ==
    IF i < est[e].size THEN est[e].registers[i]
    ELSE IF Follows(e) # 0 THEN est[Follows(e)].registers[0]
    ELSE slack

\* self->registers[i] = v for i <= size; a write into allocator slack
\* changes no register
WriteCell(e, i, v) ==
    IF i < est[e].size THEN [est EXCEPT ![e].registers[i] = v]
    ELSE IF Follows(e) # 0 THEN [est EXCEPT ![Follows(e)].registers[0] = v]
    ELSE est

(***************************************************************************)
(* HyperLogLog_new and HyperLogLog_init.                                   *)
(***************************************************************************)
HyperLogLog_init(k, seed) ==
    [k |-> k, seed |-> seed, size |-> SizeOf(k),
     registers |-> [i \in 0..(SizeOf(k) - 1) |-> 0]]

NoOp == [name |-> "init"]

NoProbe == [pc |-> "none"]

Init ==
    /\ \E k1 \in KMin..MaxK, k2 \in KMin..MaxK :
          est = [e \in Ests |-> HyperLogLog_init(IF e = 1 THEN k1 ELSE k2,
                                                 DefaultSeed)]
    /\ layout \in Layouts
    /\ op = NoOp
    /\ steps = 0
    /\ alive = TRUE
    /\ probe = NoProbe

(***************************************************************************)
(* HyperLogLog_add.                                                        *)
(***************************************************************************)
\* registers[index] += rank
UpdateRule_sum(old, rank) == old + rank

\* if (rank > self->registers[index]) self->registers[index] = rank
UpdateRule(old, rank) == IF rank > old THEN rank ELSE old

HyperLogLog_add(e, data) ==
    LET h     == MurmurHash3_x86_32(data, est[e].seed)
        index == AddIndex(h, est[e].k)
        rank  == AddRank(h, est[e].k)
    IN  /\ alive /\ steps < MaxSteps
        /\ \E slack \in SlackBytes :
              est' = WriteCell(e, index, UpdateRule(ReadCell(e, index, slack), rank))
        /\ op' = [name |-> "add", e |-> e, data |-> data, hash |-> h,
                  index |-> index, rank |-> rank,
                  count |-> IF op.name = "add" /\ op.e = e /\ op.data = data
                            THEN op.count + 1 ELSE 1]
        /\ steps' = steps + 1
        /\ UNCHANGED <<layout, alive, probe>>

(***************************************************************************)
(* HyperLogLog_set_register.  index and rank are parsed into uint32_t;     *)
(* the inputs are taken non-negative.                                      *)
(***************************************************************************)
\* the rank test with its limit one too high
RankTooLarge_above33(rank) == rank > MaxRank + 1

\* rank > 32
RankTooLarge(rank) == rank > MaxRank

\* index > self->size
IndexTooLarge(index, size) == index > size

HyperLogLog_set_register(e, index, rank) ==
    /\ alive /\ steps < MaxSteps
    /\ IF IndexTooLarge(index, est[e].size)
       THEN /\ op' = [name |-> "set_register", e |-> e, index |-> index,
                      rank |-> rank, result |-> "IndexError"]
            /\ est' = est
       ELSE IF RankTooLarge(rank)
       THEN /\ op' = [name |-> "set_register", e |-> e, index |-> index,
                      rank |-> rank, result |-> "ValueError"]
            /\ est' = est
       ELSE /\ op' = [name |-> "set_register", e |-> e, index |-> index,
                      rank |-> rank, result |-> "None"]
            /\ est' = WriteCell(e, index, rank)
    /\ steps' = steps + 1
    /\ UNCHANGED <<layout, alive, probe>>

(***************************************************************************)
(* HyperLogLog_registers and HyperLogLog_merge.                            *)
(***************************************************************************)
\* a copy of the registers
HyperLogLog_registers(e) == est[e].registers

\* self->registers[i] = hllRegisters[i], unconditionally
MergeRule_overwrite(mine, theirs) == theirs

\* if (self->registers[i] < hllRegisters[i]) self->registers[i] = hllRegisters[i]
MergeRule(mine, theirs) == IF mine < theirs THEN theirs ELSE mine

\* the size test with the comparison narrowed to "peer is smaller"
SizeMismatch_smaller(hllSize, size) == hllSize < size

\* hllSize != self->size
SizeMismatch(hllSize, size) == hllSize # size

\* free(hllRegisters) releases memory owned by the bytearray: the call
\* either returns or the allocator aborts the process
HyperLogLog_merge(e, peer) ==
    /\ alive /\ steps < MaxSteps
    /\ IF SizeMismatch(est[peer].size, est[e].size)
       THEN /\ op' = [name |-> "merge", e |-> e, peer |-> peer,
                      result |-> "ValueError"]
            /\ est' = est
            /\ alive' = alive
       ELSE LET hllRegisters == HyperLogLog_registers(peer)
            IN  /\ est' = [est EXCEPT ![e].registers =
                              [i \in 0..(est[e].size - 1) |->
                                  MergeRule(est[e].registers[i], hllRegisters[i])]]
                /\ \E fate \in {"None", "abort"} :
                      /\ op' = [name |-> "merge", e |-> e, peer |-> peer,
                                result |-> fate]
                      /\ alive' = (fate = "None")
    /\ steps' = steps + 1
    /\ UNCHANGED <<layout, probe>>

(***************************************************************************)
(* HyperLogLog_cardinality.  The doubles are modelled in fixed point:      *)
(* alpha in units of 10^-4, sum in units of 2^-10 (a register above 10     *)
(* adds nothing), estimates in thousandths.  A raw estimate the fixed      *)
(* point cannot hold (sum = 0) is reported as Unrepresented.               *)
(***************************************************************************)
SumScale == 1024

Unrepresented == -1

\* alpha, times 10^4
Alpha4(size) ==
    CASE size = 16 -> 6730
      [] size = 32 -> 6970
      [] size = 64 -> 7090
      [] OTHER     -> (7213 * size * 1000) \div (size * 1000 + 1079)

\* 1.0/pow(2, rank), times SumScale
Pow2Neg(rank) == IF rank <= 10 THEN 2 ^ (10 - rank) ELSE 0

RECURSIVE RegisterSum(_, _)
RegisterSum(regs, n) ==
    IF n = 0 THEN 0 ELSE RegisterSum(regs, n - 1) + Pow2Neg(regs[n - 1])

\* log(n), times 1000
LogTable ==
    << 0, 693, 1099, 1386, 1609, 1792, 1946, 2079,
       2197, 2303, 2398, 2485, 2565, 2639, 2708, 2773 >>

RECURSIVE LogMilli(_)
LogMilli(n) == IF n <= 16 THEN LogTable[n] ELSE 693 + LogMilli(n \div 2)

\* self->registers == 0 compares the buffer pointer, which init set from
\* malloc and already wrote through, with the null pointer
RegistersPointerIsNull(e) == FALSE

\* for (i = 0; i < size; i++) if (self->registers == 0) zeros += 1
CountZeros(e) ==
    Cardinality({i \in 0..(est[e].size - 1) : RegistersPointerIsNull(e)})

Estimate(e) ==
    LET size  == est[e].size
        alpha == Alpha4(size)
        sum   == RegisterSum(est[e].registers, size)
        \* raw_estimate = alpha * (1/sum) * size * size
        raw   == IF sum = 0 THEN Unrepresented
                 ELSE (((alpha * size * size) \div 10) * SumScale) \div sum
        \* raw_estimate <= 2.5 * size
        small == sum # 0 /\ alpha * size * SumScale <= 25000 * sum
        zeros == IF small THEN CountZeros(e) ELSE 0
        \* the value of estimate after the small-range block
        first == IF small
                 THEN IF zeros # 0 THEN size * LogMilli(size \div zeros) ELSE raw
                 ELSE 0
        \* estimate <= (1.0/30.0) * two_32 holds of every representable
        \* value: estimate = raw_estimate
        final == IF sum = 0 THEN Unrepresented ELSE raw
    IN  [small |-> small, zeros |-> zeros,
         linear |-> (small /\ zeros # 0), first |-> first, milli |-> final]

HyperLogLog_cardinality(e) ==
    /\ alive /\ steps < MaxSteps
    /\ op' = [name |-> "cardinality", e |-> e, result |-> Estimate(e)]
    /\ steps' = steps + 1
    /\ UNCHANGED <<est, layout, alive, probe>>

(***************************************************************************)
(* The estimators under arbitrary calls.                                   *)
(***************************************************************************)
SetIndexes(e) == {0, est[e].size - 1, est[e].size, est[e].size + 1}

SetRanks == {0, MaxRank, MaxRank + 1}

AddStep == \E e \in Ests, data \in Data : HyperLogLog_add(e, data)

SetRegisterStep ==
    \E e \in Ests : \E index \in SetIndexes(e), rank \in SetRanks :
        HyperLogLog_set_register(e, index, rank)

MergeStep == \E e \in Ests, peer \in Ests : HyperLogLog_merge(e, peer)

CardinalityStep == \E e \in Ests : HyperLogLog_cardinality(e)

Next == AddStep \/ SetRegisterStep \/ MergeStep \/ CardinalityStep

Spec == Init /\ [][Next]_vars

(***************************************************************************)
(* The hash mapping alone, for every k the constructor accepts.            *)
(***************************************************************************)
HashSamples ==
    {Zero32}
    \cup {Run(a, b) : a \in 0..31, b \in 0..31}
    \cup {OrW(Run(a, 31), Run(b, b)) : a \in 16..31, b \in 0..31}

InitHash ==
    /\ est = [e \in Ests |-> HyperLogLog_init(KMin, DefaultSeed)]
    /\ layout = "apart"
    /\ op = NoOp
    /\ steps = 0
    /\ alive = TRUE
    /\ probe = [pc |-> "idle"]

\* a hash arrives at an estimator of 2^k registers
ProbeHash ==
    /\ probe.pc = "idle"
    /\ \E k \in KMin..KMax, h \in HashSamples :
          probe' = [pc |-> "hashed", k |-> k, hash |-> h]
    /\ UNCHANGED <<est, layout, op, steps, alive>>

\* add() derives index and rank from it
ProbeMap ==
    /\ probe.pc = "hashed"
    /\ probe' = [pc |-> "mapped", k |-> probe.k, hash |-> probe.hash,
                 index |-> AddIndex(probe.hash, probe.k),
                 rank |-> AddRank(probe.hash, probe.k)]
    /\ UNCHANGED <<est, layout, op, steps, alive>>

NextHash == ProbeHash \/ ProbeMap

SpecHash == InitHash /\ [][NextHash]_vars

(***************************************************************************)
(* Vocabulary of the claims.                                               *)
(***************************************************************************)
\* the errors of the interface, as the exceptions that carry them
OutOfRange == "IndexError"

InvalidArgument == "ValueError"

\* the top k bits of h
TopBits(h, k) == h.hi \div 2 ^ (16 - k)

\* the number of zero bits above the highest set bit among bits 0..31-k of h
LeadingZerosOfRemainder(h, k) ==
    LET set == {i \in 0..(31 - k) : BitAt(h, i) = 1}
    IN  IF set = {} THEN 32 - k
        ELSE (31 - k) - (CHOOSE i \in set : \A j \in set : j <= i)

RemainderIsZero(h, k) == \A i \in 0..(31 - k) : BitAt(h, i) = 0

Positions(e) == 0..(est[e].size - 1)

ZeroRegisters(e) == {i \in Positions(e) : est[e].registers[i] = 0}

(***************************************************************************)
(* C1: add() uses as index the top k bits of the hash, a position in       *)
(* 0 .. 2^k - 1, so it stays inside the register buffer.                   *)
(***************************************************************************)
C1_IndexIsTopBits ==
    probe.pc = "mapped" =>
        /\ probe.index = TopBits(probe.hash, probe.k)
        /\ probe.index \in 0..(SizeOf(probe.k) - 1)

(***************************************************************************)
(* C2: set_register fails with OutOfRange whenever index >= size and with  *)
(* InvalidArgument whenever rank > 32 (index in range), and a failing call *)
(* changes no register.                                                    *)
(***************************************************************************)
C2_SetRegisterRejects ==
    [][op'.name = "set_register" =>
          /\ op'.index >= est[op'.e].size => op'.result = OutOfRange
          /\ (op'.index < est[op'.e].size /\ op'.rank > 32)
                => op'.result = InvalidArgument
          /\ op'.result # "None" => est' = est]_vars

(***************************************************************************)
(* C3: whatever add, set_register and merge calls were made, every         *)
(* register of every estimator holds a value in 0..32.                     *)
(***************************************************************************)
C3_RegistersInRange ==
    \A e \in Ests : \A i \in Positions(e) : est[e].registers[i] \in 0..32

C3_Witness ==
    /\ op.name = "merge"
    /\ op.result = "None"
    /\ \E i \in Positions(op.e) : est[op.e].registers[i] = 32

(***************************************************************************)
(* C4: add() sets the register at the top-k-bits index to the maximum of   *)
(* its old value and the rank, and changes nothing else of the estimator.  *)
(***************************************************************************)
C4_AddUpdatesItsRegister ==
    [][op'.name = "add" =>
          LET e == op'.e
              index == TopBits(op'.hash, est[e].k)
          IN  est'[e] = [est[e] EXCEPT
                            !.registers[index] = Max(@, op'.rank)]]_vars

(***************************************************************************)
(* C5: after a merge with a peer of the same size every register of self   *)
(* is the maximum of its old value and the peer's register, and the        *)
(* peer's registers are what they were.                                    *)
(***************************************************************************)
C5_MergeTakesMax ==
    [][(op'.name = "merge" /\ est[op'.peer].size = est[op'.e].size) =>
          LET e == op'.e
              peer == op'.peer
          IN  /\ \A i \in Positions(e) :
                    est'[e].registers[i] =
                        Max(est[e].registers[i], est[peer].registers[i])
              /\ est'[peer].registers = est[peer].registers]_vars

C5_Witness ==
    /\ op.name = "merge"
    /\ op.result = "None"
    /\ op.peer # op.e
    /\ \E i \in Positions(op.e) :
          /\ est[op.e].registers[i] > 0
          /\ est[op.e].registers[i] = est[op.peer].registers[i]
    /\ \E j \in Positions(op.e) :
          est[op.e].registers[j] > est[op.peer].registers[j]

(***************************************************************************)
(* C6: a merge with a peer of another size fails with InvalidArgument and  *)
(* leaves the registers of self and of the peer as they were.              *)
(***************************************************************************)
C6_MergeRejectsOtherSize ==
    [][(op'.name = "merge" /\ est[op'.peer].size # est[op'.e].size) =>
          /\ op'.result = InvalidArgument
          /\ est'[op'.e].registers = est[op'.e].registers
          /\ est'[op'.peer].registers = est[op'.peer].registers]_vars

C6_Witness ==
    /\ op.name = "merge"
    /\ op.result = InvalidArgument
    /\ est[op.peer].size > est[op.e].size
    /\ \E i \in Positions(op.e) :
          est[op.peer].registers[i] > est[op.e].registers[i]

(***************************************************************************)
(* C7: adding the same bytes again, any number of times, leaves the        *)
(* register array as the first add left it.                                *)
(***************************************************************************)
C7_RepeatedAddChangesNothing ==
    [][(op'.name = "add" /\ op'.count >= 2) =>
          est'[op'.e].registers = est[op'.e].registers]_vars

C7_Witness ==
    /\ op.name = "add"
    /\ op.count >= 2
    /\ op.index < est[op.e].size
    /\ est[op.e].registers[op.index] = op.rank

(***************************************************************************)
(* C8: when cardinality() takes the small-range correction, zeros is the   *)
(* number of registers equal to 0, and if that number is positive the      *)
(* correction selects size * ln(size / zeros).                             *)
(***************************************************************************)
C8_ZerosCountsZeroRegisters ==
    (op.name = "cardinality" /\ op.result.small) =>
        LET n == Cardinality(ZeroRegisters(op.e))
        IN  /\ op.result.zeros = n
            /\ n > 0 =>
                  /\ op.result.linear
                  /\ op.result.first =
                        est[op.e].size * LogMilli(est[op.e].size \div n)

(***************************************************************************)
(* C9: cardinality() of an estimator whose registers are all zero is 0.    *)
(***************************************************************************)
C9_EmptyEstimatesZero ==
    (op.name = "cardinality" /\ ZeroRegisters(op.e) = Positions(op.e)) =>
        op.result.milli = 0

(***************************************************************************)
(* C10: the rank add() computes is the number of leading zero bits of the  *)
(* low 32-k bits of the hash plus 1, which is 33-k when those bits are all *)
(* zero; it lies in 1..33-k.                                               *)
(***************************************************************************)
C10_RankIsLeadingZerosPlusOne ==
    probe.pc = "mapped" =>
        /\ probe.rank = LeadingZerosOfRemainder(probe.hash, probe.k) + 1
        /\ RemainderIsZero(probe.hash, probe.k) => probe.rank = 33 - probe.k
        /\ probe.rank \in 1..(33 - probe.k)

C10_Witness ==
    /\ probe.pc = "mapped"
    /\ probe.k = KMax
    /\ probe.hash.hi # 0
    /\ RemainderIsZero(probe.hash, probe.k)
    /\ probe.rank = 17
====
